---- MODULE Spec2Model ----
(***************************************************************************)
(* jpg_to_webm (src/main.rs): a walker over a base directory that, for     *)
(* every event directory, lists the .jpg frames, estimates a frame rate    *)
(* from the files' timestamps and runs ffmpeg on them.                     *)
(*                                                                         *)
(* Text is modelled as sequences of characters (one-character strings; a   *)
(* non-ASCII character is written by its code point, "U+00BD"), a path as  *)
(* the sequence of its components.  An f64 is modelled by the rational     *)
(* number it approximates, [n |-> numerator, d |-> denominator] in lowest  *)
(* terms, or by Inf; timestamps are whole seconds, so the sums and         *)
(* quotients of the estimator are exact up to the final rounding.          *)
(***************************************************************************)
EXTENDS Integers, Sequences, FiniteSets, TLC

(* ------------------------------ bounds --------------------------------- *)

\* entries of the base directory besides "videos"
MaxEntries == 2
\* entries of one event directory
MaxFiles == 3
\* file timestamps range over -1 .. MaxTime seconds since the Unix epoch
MaxTime == 2

(* ------------------------------- text ---------------------------------- *)

AsciiDigits == {"0", "1", "2", "3", "4", "5", "6", "7", "8", "9"}

\* The characters of the model in the order of their UTF-8 encoding.
Alphabet ==
    <<"%", "-", ".", "0", "1", "2", "3", "4", "5", "6", "7", "8", "9",
      "a", "b", "c", "d", "e", "g", "i", "j", "m", "n", "o", "p", "r", "s",
      "t", "u", "v", "w", "U+00BD">>

Code(c) == CHOOSE i \in 1..Len(Alphabet) : Alphabet[i] = c

\* Ord for OsStr: lexicographic on the encoded bytes.
RECURSIVE StrLess(_, _)
StrLess(a, b) ==
    IF a = <<>> THEN b # <<>>
    ELSE IF b = <<>> THEN FALSE
    ELSE IF Head(a) = Head(b) THEN StrLess(Tail(a), Tail(b))
    ELSE Code(Head(a)) < Code(Head(b))

\* Ord for Path: lexicographic on the components.
RECURSIVE PathLess(_, _)
PathLess(p, q) ==
    IF p = <<>> THEN q # <<>>
    ELSE IF q = <<>> THEN FALSE
    ELSE IF Head(p) = Head(q) THEN PathLess(Tail(p), Tail(q))
    ELSE StrLess(Head(p), Head(q))

\* Path::join with a relative one-component path.
Join(path, name) == Append(path, name)

\* Path::file_name of a path that does not end in "..".
FileName(path) == path[Len(path)]

None == [some |-> FALSE]
Some(v) == [some |-> TRUE, value |-> v]

\* Path::extension: the part of the file name after its last ".", none when
\* the name has no "." or its only "." is the first character.
Extension(path) ==
    LET name == FileName(path)
        dots == {i \in 1..Len(name) : name[i] = "."}
    IN  IF dots \subseteq {1} THEN None
        ELSE LET last == CHOOSE i \in dots : \A j \in dots : j <= i
             IN  Some(SubSeq(name, last + 1, Len(name)))

\* char::is_numeric: the Unicode categories Nd, Nl and No, which hold the
\* ASCII digits and also characters such as U+00BD, VULGAR FRACTION ONE HALF.
is_numeric(c) == c \in AsciiDigits \cup {"U+00BD"}

\* name.chars().all(char::is_numeric)
AllNumeric(name) == \A i \in 1..Len(name) : is_numeric(name[i])

(* ------------------------------- f64 ----------------------------------- *)

Abs(x) == IF x < 0 THEN -x ELSE x

RECURSIVE Gcd(_, _)
Gcd(a, b) == IF b = 0 THEN a ELSE Gcd(b, a % b)

Inf == [n |-> 1, d |-> 0]

\* the f64 n/d, d # 0, in lowest terms with a positive denominator
Ratio(n, d) ==
    LET g == Gcd(Abs(n), Abs(d))
        s == IF d < 0 THEN -1 ELSE 1
    IN  [n |-> s * (n \div g), d |-> s * (d \div g)]

F64(k) == [n |-> k, d |-> 1]

F64Add(x, y) == Ratio(x.n * y.d + y.n * x.d, x.d * y.d)

F64Sub(x, y) == Ratio(x.n * y.d - y.n * x.d, x.d * y.d)

\* x / y for a finite non-zero x and a finite y; the deltas of the estimator
\* sum to +0.0, never -0.0, so a zero divisor gives +inf for a positive x.
F64Div(x, y) ==
    IF y.n = 0 THEN Inf ELSE Ratio(x.n * y.d, x.d * y.n)

\* Iterator::sum::<f64>: a left fold from zero.
RECURSIVE F64SumFrom(_, _)
F64SumFrom(acc, xs) ==
    IF xs = <<>> THEN acc ELSE F64SumFrom(F64Add(acc, Head(xs)), Tail(xs))

F64Sum(xs) == F64SumFrom(F64(0), xs)

\* the decimal digits of a natural number
RECURSIVE Digits(_)
Digits(k) ==
    IF k < 10 THEN <<Alphabet[Code("0") + k]>>
    ELSE Append(Digits(k \div 10), Alphabet[Code("0") + (k % 10)])

\* the digits after the decimal point of r/d, r < d, for a d whose decimal
\* expansion ends
RECURSIVE FractionDigits(_, _)
FractionDigits(r, d) ==
    IF r = 0 THEN <<>>
    ELSE <<Alphabet[Code("0") + ((10 * r) \div d)]>> \o FractionDigits((10 * r) % d, d)

RECURSIVE OnlyTwosAndFives(_)
OnlyTwosAndFives(d) ==
    IF d = 1 THEN TRUE
    ELSE IF d % 2 = 0 THEN OnlyTwosAndFives(d \div 2)
    ELSE IF d % 5 = 0 THEN OnlyTwosAndFives(d \div 5)
    ELSE FALSE

\* f64::to_string (Display): "inf", an integral value without a fraction
\* ("24", "1"), a short decimal such as "0.5" in full.  For a value whose
\* decimal expansion does not end, Display prints the shortest decimal that
\* parses back to the same f64; the model names that text without spelling
\* its digits.
to_string(x) ==
    IF x = Inf THEN <<"i", "n", "f">>
    ELSE LET sign == IF x.n < 0 THEN <<"-">> ELSE <<>>
             a == Abs(x.n)
         IN  IF x.d = 1 THEN sign \o Digits(a)
             ELSE IF OnlyTwosAndFives(x.d)
             THEN sign \o Digits(a \div x.d) \o <<".">> \o FractionDigits(a % x.d, x.d)
             ELSE sign \o <<"shortest">> \o Digits(a) \o <<"/">> \o Digits(x.d)

(* --------------------------- the file system --------------------------- *)

Stamps == (-1)..MaxTime

\* io::Result<SystemTime> of Metadata::created and Metadata::modified: a
\* time in seconds relative to the Unix epoch, or an error (None).
CreatedResults == {None} \cup {Some(t) : t \in Stamps}
ModifiedResults == {None, Some(0), Some(MaxTime)}

MetaErr == [ok |-> FALSE]

\* io::Result<Metadata> of fs::metadata for one file
Metas ==
    {MetaErr} \cup
    {[ok |-> TRUE, created |-> c, modified |-> m] :
        c \in CreatedResults, m \in ModifiedResults}

\* the metadata drawn where the walk, not the estimate, is examined
WalkMetas ==
    {MetaErr, [ok |-> TRUE, created |-> None, modified |-> Some(MaxTime)]}

(* ----------------------------- estimator ------------------------------- *)

\* created().or_else(|_| modified()).ok()
get_file_timestamp(metadata) ==
    IF metadata.created.some THEN metadata.created ELSE metadata.modified

\* a variant that takes the epoch for a timestamp it cannot obtain
SecsSinceEpoch_OrEpoch(metadata) ==
    LET t == get_file_timestamp(metadata)
    IN  IF ~t.some THEN Some(F64(0))
        ELSE IF t.value < 0 THEN Some(F64(0))
        ELSE Some(F64(t.value))

\* get_file_timestamp(&m)?.duration_since(UNIX_EPOCH).ok()?.as_secs_f64():
\* duration_since fails for a time before the epoch.
SecsSinceEpoch(metadata) ==
    LET t == get_file_timestamp(metadata)
    IN  IF ~t.some THEN None
        ELSE IF t.value < 0 THEN None
        ELSE Some(F64(t.value))

\* a variant that divides by the number of frames, not of deltas
Mean_ByFrames(time_diffs) == F64Div(F64Sum(time_diffs), F64(Len(time_diffs) + 1))

\* time_diffs.iter().sum::<f64>() / time_diffs.len() as f64
Mean(time_diffs) == F64Div(F64Sum(time_diffs), F64(Len(time_diffs)))

\* The loop of calculate_framerate from index i (0-based, as in the source)
\* on: the value it returns, and the paths fs::metadata was called on.
RECURSIVE FramerateLoop(_, _, _, _, _)
FramerateLoop(image_files, meta, i, time_diffs, reads) ==
    IF i >= Len(image_files)
    THEN [value |-> Some(F64Div(F64(1), Mean(time_diffs))), reads |-> reads]
    ELSE LET prev == image_files[i]
             curr == image_files[i + 1]
             meta_prev == meta[prev]
             meta_curr == meta[curr]
             reads_prev == Append(reads, prev)
             reads_curr == Append(reads_prev, curr)
             timestamp_prev == SecsSinceEpoch(meta_prev)
             timestamp_curr == SecsSinceEpoch(meta_curr)
         IN  IF ~meta_prev.ok THEN [value |-> None, reads |-> reads_prev]
             ELSE IF ~meta_curr.ok THEN [value |-> None, reads |-> reads_curr]
             ELSE IF ~timestamp_prev.some THEN [value |-> None, reads |-> reads_curr]
             ELSE IF ~timestamp_curr.some THEN [value |-> None, reads |-> reads_curr]
             ELSE FramerateLoop(image_files, meta, i + 1,
                      Append(time_diffs, F64Sub(timestamp_curr.value, timestamp_prev.value)),
                      reads_curr)

calculate_framerate(image_files, meta) ==
    IF Len(image_files) < 2 THEN [value |-> None, reads |-> <<>>]
    ELSE FramerateLoop(image_files, meta, 1, <<>>, <<>>)

(* ------------------------------ builder -------------------------------- *)

DefaultFramerate == 24

\* a variant that also replaces an estimate that is not a positive finite rate
unwrap_or_default_Sanitised(estimate) ==
    IF estimate.some /\ estimate.value.n > 0 /\ estimate.value.d > 0
    THEN estimate.value
    ELSE F64(DefaultFramerate)

\* calculate_framerate(&image_files).unwrap_or(24.0)
unwrap_or_default(estimate) ==
    IF estimate.some THEN estimate.value ELSE F64(DefaultFramerate)

\* Vec::sort of a set of distinct paths
RECURSIVE SortPaths(_)
SortPaths(paths) ==
    IF paths = {} THEN <<>>
    ELSE LET least == CHOOSE p \in paths : \A q \in paths \ {p} : PathLess(p, q)
         IN  <<least>> \o SortPaths(paths \ {least})

\* read_dir(event_id_dir)?.filter_map(ok -> path).filter(extension == "jpg")
\* .collect(), then sort()
ImageFiles(event_id_dir, entries) ==
    SortPaths({Join(event_id_dir, e.name) :
        e \in {x \in entries : x.ok /\ Extension(<<x.name>>) = Some(<<"j", "p", "g">>)}})

\* Path::to_string_lossy of a path whose components are valid UTF-8
RECURSIVE to_string_lossy(_)
to_string_lossy(path) ==
    IF Len(path) = 1 THEN path[1]
    ELSE to_string_lossy(SubSeq(path, 1, Len(path) - 1)) \o <<"/">> \o path[Len(path)]

InputPatternName == <<"%", "d", "-", "c", "a", "p", "t", "u", "r", "e", ".", "j", "p", "g">>
VideoSuffix == <<"-", "v", "i", "d", "e", "o", ".", "w", "e", "b", "m">>

\* event_id_dir.join("%d-capture.jpg")
ImagesPattern(event_id_dir) == Join(event_id_dir, InputPatternName)

\* output_dir.join(format!("{}-video.webm", event_id_dir.file_name()...))
OutputFile(event_id_dir, output_dir) ==
    Join(output_dir, FileName(event_id_dir) \o VideoSuffix)

\* Command::new("ffmpeg").args(&[...])
FfmpegCommand(framerate, images_pattern, output_file) ==
    [program |-> "ffmpeg",
     args |-> <<"-framerate", to_string(framerate),
                "-i", to_string_lossy(images_pattern),
                "-c:v", "libvpx-vp9",
                "-pix_fmt", "yuv420p",
                to_string_lossy(output_file)>>]

\* a variant that skips an event directory it cannot list
ResultOfListError_Skip == "Ok"

\* what create_webm_from_images does when read_dir(event_id_dir) fails:
\* read_dir(..)? returns the error
ResultOfListError == "Err"

\* a variant that returns early when no frame was found
RunsEncoder_IfFrames(image_files) == image_files # <<>>

\* whether create_webm_from_images, the directory listed, goes on to
\* Command::status: it does for every listing, there is no early return
RunsEncoder(image_files) == TRUE

\* a variant that starts the child with .spawn() and does not wait for it
PcAfterSpawn_NoWait == "iter"

\* .status() starts the child and blocks until it has exited
PcAfterSpawn == "encoding"

\* a variant that escalates an unsuccessful exit
ResultAfterExit_Escalate(success) == IF success THEN "Ok" ELSE "Err"

\* what create_webm_from_images returns once the child has exited
ResultAfterExit(success) == "Ok"

\* a variant that treats a child that cannot be started like a failed one
ResultOfSpawnError_Continue == "Ok"

\* what create_webm_from_images does when the child cannot be started:
\* .status()? returns the error
ResultOfSpawnError == "Err"

(* ------------------------------- walker -------------------------------- *)

BaseDir == << <<"b", "a", "s", "e">> >>
VideosName == <<"v", "i", "d", "e", "o", "s">>

\* base_dir.join("videos")
VideosDir == Join(BaseDir, VideosName)

\* fs::create_dir, which fails on a path that exists
create_dir(state, permitted) ==
    IF state = "absent" THEN permitted ELSE FALSE

\* fs::create_dir_all on a path that is absent, a directory or a file:
\* whether it succeeds (permitted: the directory can be created)
create_dir_all(state, permitted) ==
    IF state = "dir" THEN TRUE
    ELSE IF state = "absent" THEN permitted
    ELSE FALSE

\* path.is_dir() && file_name().and_then(to_str).map_or(false, all numeric),
\* for a name that is valid UTF-8
is_event_dir(entry) == entry.is_dir /\ AllNumeric(entry.name)

\* names of the base directory's entries the model draws from
BaseNames ==
    { <<"4", "2">>, <<"0", "0", "7">>, <<"n", "o", "t", "a", "n", "u", "m">>,
      <<"1", "U+00BD">> }

BaseEntries == [name : BaseNames, is_dir : BOOLEAN]

\* the base directory of the end-to-end scenario: one event directory, 42
ScenarioEntries == {[name |-> <<"4", "2">>, is_dir |-> TRUE]}

VideosEntry == [name |-> VideosName, is_dir |-> TRUE]

\* entries of an event directory the model draws from: frames, a file of
\* another type, a nested directory with a numeric name, an entry whose
\* read failed
FrameNames == { <<"1", ".", "j", "p", "g">>, <<"1", "0", ".", "j", "p", "g">>,
                <<"2", ".", "j", "p", "g">> }
ErrEntry == [ok |-> FALSE]
EventEntries ==
    {[ok |-> TRUE, name |-> n, is_dir |-> FALSE] : n \in FrameNames} \cup
    {[ok |-> TRUE, name |-> <<"1", ".", "p", "n", "g">>, is_dir |-> FALSE],
     [ok |-> TRUE, name |-> <<"7">>, is_dir |-> TRUE],
     ErrEntry}

Listings == {l \in SUBSET EventEntries : Cardinality(l) <= MaxFiles}

Range(seq) == {seq[i] : i \in 1..Len(seq)}

NoCmd == [program |-> "none", args |-> <<>>]
NoDir == <<>>
NoMeta == [p \in {} |-> MetaErr]

VARIABLES
    pc,            \* where process_event_directories stands
    err,           \* the call that returned an I/O error, or "none"
    videos,        \* base/videos: "absent", "dir" or "file"
    mkdirs,        \* what each call of create_dir_all found at base/videos
    seen,          \* entries the read_dir iterator of the base has yielded
    processed,     \* directories create_webm_from_images was called on
    invoked,       \* directories Command::status was called for
    children,      \* encoder processes started and not yet exited
    status,        \* the last ExitStatus: "none", "success", "failure"
    stdout,        \* output files named by "Created video"
    stderr,        \* directories named by "Failed to create video"
    event_id_dir,  \* locals of the running create_webm_from_images
    dir_entries,
    image_files,
    fileMeta,
    estimate,
    reads,
    cmd

vars == <<pc, err, videos, mkdirs, seen, processed, invoked, children, status,
          stdout, stderr, event_id_dir, dir_entries, image_files, fileMeta,
          estimate, reads, cmd>>

walk == <<videos, mkdirs, seen, processed, invoked, children, status, stdout, stderr>>
locals == <<event_id_dir, dir_entries, image_files, fileMeta, estimate, reads, cmd>>

NoLocals ==
    /\ event_id_dir = NoDir
    /\ dir_entries = {}
    /\ image_files = <<>>
    /\ fileMeta = NoMeta
    /\ estimate = None
    /\ reads = <<>>
    /\ cmd = NoCmd

DropLocals ==
    /\ event_id_dir' = NoDir
    /\ dir_entries' = {}
    /\ image_files' = <<>>
    /\ fileMeta' = NoMeta
    /\ estimate' = None
    /\ reads' = <<>>
    /\ cmd' = NoCmd

Init ==
    /\ pc = "start"
    /\ err = "none"
    /\ videos \in {"absent", "dir", "file"}
    /\ mkdirs = <<>>
    /\ seen = {}
    /\ processed = <<>>
    /\ invoked = <<>>
    /\ children = {}
    /\ status = "none"
    /\ stdout = <<>>
    /\ stderr = <<>>
    /\ NoLocals

\* fs::create_dir_all(&videos_dir)?
CreateVideosDir ==
    /\ pc = "start"
    /\ \E permitted \in BOOLEAN :
        LET ok == create_dir_all(videos, permitted)
        IN  /\ mkdirs' = Append(mkdirs, videos)
            /\ videos' = IF ok THEN "dir" ELSE videos
            /\ pc' = IF ok THEN "list" ELSE "aborted"
            /\ err' = IF ok THEN "none" ELSE "create_dir_all"
    /\ UNCHANGED <<seen, processed, invoked, children, status, stdout, stderr>>
    /\ UNCHANGED locals

\* fs::read_dir(base_dir)?
ReadBaseDir ==
    /\ pc = "list"
    /\ \E ok \in BOOLEAN :
        /\ pc' = IF ok THEN "iter" ELSE "aborted"
        /\ err' = IF ok THEN "none" ELSE "read_dir(base)"
    /\ UNCHANGED walk
    /\ UNCHANGED locals

\* the entries the iterator may yield next, of a base directory that holds
\* some of Entries
NextEntries(Entries) ==
    {e \in Entries \cup {VideosEntry} :
        /\ \A s \in seen : s.name # e.name
        /\ e # VideosEntry => Cardinality(seen \ {VideosEntry}) < MaxEntries}

\* let entry = entry?; with the iterator yielding an error
EntryError ==
    /\ pc = "iter"
    /\ pc' = "aborted"
    /\ err' = "entry"
    /\ UNCHANGED walk
    /\ UNCHANGED locals

\* an entry that is not an event directory
SkipEntry(Entries) ==
    /\ pc = "iter"
    /\ \E e \in NextEntries(Entries) :
        /\ ~is_event_dir(e)
        /\ seen' = seen \cup {e}
    /\ UNCHANGED <<pc, err, videos, mkdirs, processed, invoked, children, status,
                   stdout, stderr>>
    /\ UNCHANGED locals

\* create_webm_from_images on an event directory that cannot be listed
EventDirUnreadable(Entries) ==
    /\ pc = "iter"
    /\ \E e \in NextEntries(Entries) :
        /\ is_event_dir(e)
        /\ seen' = seen \cup {e}
        /\ processed' = Append(processed, Join(BaseDir, e.name))
    /\ pc' = IF ResultOfListError = "Err" THEN "aborted" ELSE "iter"
    /\ err' = "read_dir(event)"
    /\ UNCHANGED <<videos, mkdirs, invoked, children, status, stdout, stderr>>
    /\ UNCHANGED locals

\* create_webm_from_images on an event directory, up to Command::status
BuildVideo(Entries, MetaResults) ==
    /\ pc = "iter"
    /\ \E e \in NextEntries(Entries), entries \in Listings, spawned \in BOOLEAN :
        LET dir == Join(BaseDir, e.name)
            files == ImageFiles(dir, entries)
        IN  /\ is_event_dir(e)
            /\ seen' = seen \cup {e}
            /\ processed' = Append(processed, dir)
            /\ \E meta \in [Range(files) -> MetaResults] :
                LET rate == calculate_framerate(files, meta)
                IN  IF ~RunsEncoder(files)
                    THEN /\ UNCHANGED <<pc, err, invoked, children>>
                         /\ DropLocals
                    ELSE IF spawned
                    THEN /\ invoked' = Append(invoked, dir)
                         /\ children' = children \cup {dir}
                         /\ pc' = PcAfterSpawn
                         /\ err' = "none"
                         /\ event_id_dir' = dir
                         /\ dir_entries' = entries
                         /\ image_files' = files
                         /\ fileMeta' = meta
                         /\ estimate' = rate.value
                         /\ reads' = rate.reads
                         /\ cmd' = FfmpegCommand(unwrap_or_default(rate.value),
                                       ImagesPattern(dir), OutputFile(dir, VideosDir))
                    ELSE /\ invoked' = Append(invoked, dir)
                         /\ children' = children
                         /\ pc' = IF ResultOfSpawnError = "Err" THEN "aborted" ELSE "iter"
                         /\ err' = "spawn"
                         /\ DropLocals
    /\ UNCHANGED <<videos, mkdirs, status, stdout, stderr>>

\* the child exits, status() returns, the outcome is printed
EncoderExit ==
    /\ pc = "encoding"
    /\ \E child \in children, success \in BOOLEAN :
        /\ children' = children \ {child}
        /\ status' = IF success THEN "success" ELSE "failure"
        /\ stdout' = IF success THEN Append(stdout, cmd.args[Len(cmd.args)]) ELSE stdout
        /\ stderr' = IF success THEN stderr ELSE Append(stderr, event_id_dir)
        /\ pc' = IF ResultAfterExit(success) = "Ok" THEN "iter" ELSE "aborted"
        /\ err' = "none"
    /\ DropLocals
    /\ UNCHANGED <<videos, mkdirs, seen, processed, invoked>>

\* the iterator is exhausted: Ok(())
EndOfDir ==
    /\ pc = "iter"
    /\ VideosEntry \in seen
    /\ pc' = "done"
    /\ UNCHANGED <<err>>
    /\ UNCHANGED walk
    /\ UNCHANGED locals

\* process_event_directories on a base directory that holds some of Entries,
\* the files' metadata drawn from MetaResults
Run(Entries, MetaResults) ==
    \/ CreateVideosDir
    \/ ReadBaseDir
    \/ EntryError
    \/ SkipEntry(Entries)
    \/ EventDirUnreadable(Entries)
    \/ BuildVideo(Entries, MetaResults)
    \/ EncoderExit
    \/ EndOfDir

\* any base directory, up to MaxEntries entries
Next == Run(BaseEntries, WalkMetas)

Spec == Init /\ [][Next]_vars

\* the base directory that holds the event directory 42, any frames in it
NextFrames == Run(ScenarioEntries, Metas)

SpecFrames == Init /\ [][NextFrames]_vars

(* ------------------------------ properties ----------------------------- *)

\* ^[0-9]+$
MatchesDigits(name) ==
    /\ Len(name) >= 1
    /\ \A i \in 1..Len(name) : name[i] \in AsciiDigits

Count(seq, x) == Cardinality({i \in 1..Len(seq) : seq[i] = x})

Text24 == <<"2", "4">>

\* the -framerate, -i and output arguments of the command
RateArg == cmd.args[2]
InputArg == cmd.args[4]
OutputArg == cmd.args[9]

\* a frame whose metadata or timestamp cannot be obtained
LookupFails(metadata) ==
    \/ ~metadata.ok
    \/ /\ metadata.ok
       /\ \/ ~metadata.created.some /\ ~metadata.modified.some
          \/ metadata.created.some /\ metadata.created.value < 0
          \/ ~metadata.created.some /\ metadata.modified.some
                /\ metadata.modified.value < 0

\* the timestamp of a frame whose lookup succeeds: creation time, else
\* modification time
Resolved(metadata) ==
    IF metadata.created.some THEN metadata.created.value ELSE metadata.modified.value

FrameTime(i) == Resolved(fileMeta[image_files[i]])

AllLookupsSucceed == \A i \in 1..Len(image_files) : ~LookupFails(fileMeta[image_files[i]])

ConstantDelta(d) ==
    \A i \in 1..(Len(image_files) - 1) : FrameTime(i + 1) - FrameTime(i) = d

Dir42 == Join(BaseDir, <<"4", "2">>)

TextVideo42 ==
    <<"b", "a", "s", "e", "/", "v", "i", "d", "e", "o", "s", "/", "4", "2",
      "-", "v", "i", "d", "e", "o", ".", "w", "e", "b", "m">>

\* C1: every directory the builder is called on is an immediate entry of
\* the base directory that is a directory and whose name matches ^[0-9]+$,
\* and once the walk is done every such entry has been processed.
C1_ExactlyDecimalNamedDirectories ==
    /\ \A i \in 1..Len(processed) :
        LET p == processed[i]
        IN  /\ Len(p) = Len(BaseDir) + 1
            /\ SubSeq(p, 1, Len(BaseDir)) = BaseDir
            /\ [name |-> FileName(p), is_dir |-> TRUE] \in seen
            /\ MatchesDigits(FileName(p))
    /\ pc = "done" =>
        \A e \in seen :
            e.is_dir /\ MatchesDigits(e.name) => Join(BaseDir, e.name) \in Range(processed)

\* C2: when the encoder of an event directory exits unsuccessfully, the
\* builder names the directory on stderr, prints nothing on stdout and
\* returns Ok, so the walk goes on; a walk that ends normally has processed
\* every event directory the iterator yielded.
C2_FailedEncoderDoesNotAbort ==
    /\ [](pc = "done" =>
            \A e \in seen : is_event_dir(e) => Join(BaseDir, e.name) \in Range(processed))
    /\ [][(pc = "encoding" /\ status' = "failure") =>
            /\ pc' = "iter"
            /\ err' = "none"
            /\ stderr' = Append(stderr, event_id_dir)
            /\ stdout' = stdout]_vars

\* an encoder failed, and the next event directory was processed with success
C2_Witness ==
    \E i \in 2..Len(processed) :
        /\ processed[i - 1] \in Range(stderr)
        /\ to_string_lossy(OutputFile(processed[i], VideosDir)) \in Range(stdout)

FatalCalls == {"create_dir_all", "read_dir(base)", "read_dir(event)"}

\* C3: a failure of create_dir_all, of listing the base directory or of
\* listing an event directory aborts the run in the very step: that step
\* invokes no encoder and prints nothing, and after the abort nothing
\* changes any more (no encoder, no directory, the earlier outcomes kept).
C3_ListingOrCreateFailureAborts ==
    /\ [](err \in FatalCalls => pc = "aborted")
    /\ [][pc # "aborted"]_vars
    /\ [][err' \in FatalCalls =>
            /\ children = {}
            /\ invoked' = invoked
            /\ children' = children
            /\ stdout' = stdout
            /\ stderr' = stderr]_vars

\* an event directory was processed with success, then the listing of the
\* next one failed
C3_Witness ==
    /\ err = "read_dir(event)"
    /\ pc = "aborted"
    /\ Len(processed) = 2
    /\ Len(stdout) = 1

\* C4: with fewer than two frames retained the estimator returns None
\* without one call of fs::metadata and the encoder gets the rate 24; the
\* encoder gets 24 whenever the estimator returns None, and the estimate
\* itself whenever it returns one.
C4_DefaultRateIffNoEstimate ==
    pc = "encoding" =>
        /\ Len(image_files) < 2 => ~estimate.some /\ reads = <<>>
        /\ ~estimate.some => RateArg = Text24
        /\ estimate.some => RateArg = to_string(estimate.value)

\* one frame, its metadata readable, and the default rate
C4_Witness ==
    /\ pc = "encoding"
    /\ Len(image_files) = 1
    /\ ~LookupFails(fileMeta[image_files[1]])
    /\ reads = <<>>
    /\ RateArg = Text24

\* C5: with two or more frames, if the metadata or the timestamp of any of
\* them cannot be obtained, the estimator returns None, the encoder is
\* started with the rate 24 and no error is raised.
C5_AnyFailedLookupGivesNoEstimate ==
    (/\ pc = "encoding"
     /\ Len(image_files) >= 2
     /\ \E i \in 1..Len(image_files) : LookupFails(fileMeta[image_files[i]]))
    => /\ ~estimate.some
       /\ RateArg = Text24
       /\ err = "none"
       /\ event_id_dir \in children

\* three frames, only the last one's lookup fails
C5_Witness ==
    /\ pc = "encoding"
    /\ Len(image_files) = 3
    /\ ~LookupFails(fileMeta[image_files[1]])
    /\ ~LookupFails(fileMeta[image_files[2]])
    /\ LookupFails(fileMeta[image_files[3]])
    /\ RateArg = Text24

\* C6: two or more frames whose timestamps, in the sorted order, grow by a
\* constant d > 0 give the estimate 1/d; frames at 0 s, 1 s and 2 s in the
\* event directory 42 give "-framerate 1" and the output
\* base/videos/42-video.webm.
C6_ConstantDeltaGivesReciprocal ==
    (/\ pc = "encoding"
     /\ Len(image_files) >= 2
     /\ AllLookupsSucceed)
    => /\ \A d \in 1..MaxTime :
            ConstantDelta(d) => estimate = Some([n |-> 1, d |-> d])
       /\ (/\ event_id_dir = Dir42
           /\ Len(image_files) = 3
           /\ FrameTime(1) = 0
           /\ ConstantDelta(1))
          => RateArg = <<"1">> /\ OutputArg = TextVideo42

\* the scenario: 42 with three frames at 0 s, 1 s, 2 s
C6_Witness ==
    /\ pc = "encoding"
    /\ event_id_dir = Dir42
    /\ Len(image_files) = 3
    /\ AllLookupsSucceed
    /\ FrameTime(1) = 0
    /\ ConstantDelta(1)
    /\ RateArg = <<"1">>
    /\ OutputArg = TextVideo42

\* C7: at most one encoder process runs at any time, and the builder is
\* entered for the next event directory (its listing, its encoder) only
\* when no encoder process is running.
C7_OneEncoderAtATime ==
    /\ [](Cardinality(children) <= 1)
    /\ [][(processed' # processed \/ invoked' # invoked) => children = {}]_vars

\* the second encoder runs, the first has exited
C7_Witness ==
    /\ Len(invoked) = 2
    /\ children = {invoked[2]}
    /\ status # "none"

\* C8: every directory the builder was called on has had the encoder
\* invoked exactly once, unless its listing failed; the command has the
\* input <event_dir>/%d-capture.jpg and the output
\* <videos_dir>/<event-id>-video.webm whatever the listing, and the rate 24
\* when no .jpg was found; a failure of the encoder for such a directory is
\* reported on stderr and the walk goes on.
C8_EncoderInvokedOncePerListedDirectory ==
    /\ [](/\ \A i \in 1..Len(processed) :
                Count(invoked, processed[i]) =
                    IF i = Len(processed) /\ err = "read_dir(event)" THEN 0 ELSE 1
          /\ pc = "encoding" =>
                /\ cmd.program = "ffmpeg"
                /\ Len(cmd.args) = 9
                /\ InputArg = to_string_lossy(event_id_dir)
                        \o <<"/", "%", "d", "-", "c", "a", "p", "t", "u", "r", "e",
                             ".", "j", "p", "g">>
                /\ OutputArg = to_string_lossy(BaseDir)
                        \o <<"/", "v", "i", "d", "e", "o", "s", "/">>
                        \o FileName(event_id_dir)
                        \o <<"-", "v", "i", "d", "e", "o", ".", "w", "e", "b", "m">>
                /\ image_files = <<>> => RateArg = Text24)
    /\ [][(pc = "encoding" /\ image_files = <<>> /\ status' = "failure") =>
            /\ pc' = "iter"
            /\ stderr' = Append(stderr, event_id_dir)]_vars

\* the encoder runs for a second directory, one that holds entries but no
\* .jpg file
C8_Witness ==
    /\ pc = "encoding"
    /\ Len(invoked) = 2
    /\ dir_entries # {}
    /\ image_files = <<>>
    /\ RateArg = Text24

\* C9: create_dir_all is called exactly once, before the base directory is
\* listed and before any encoder is invoked; the walk goes on only with
\* base/videos a directory; and on a base/videos that is a directory
\* already the call does not fail and leaves it a directory.
C9_VideosCreatedOnceAndIdempotent ==
    /\ pc = "start" =>
        mkdirs = <<>> /\ seen = {} /\ processed = <<>> /\ invoked = <<>>
    /\ pc # "start" => Len(mkdirs) = 1
    /\ pc \in {"list", "iter", "encoding", "done"} => videos = "dir"
    /\ mkdirs = <<"dir">> => videos = "dir" /\ err # "create_dir_all"

\* base/videos existed and an encoder was started
C9_Witness ==
    /\ mkdirs = <<"dir">>
    /\ pc = "encoding"
    /\ videos = "dir"

\* C10: when the encoder process cannot be started the run aborts: neither
\* notice is printed for that directory, nothing happens afterwards; and a
\* failure notice is printed only for an encoder that had started, after
\* which the walk goes on.
C10_SpawnFailureAborts ==
    /\ [](err = "spawn" =>
            /\ pc = "aborted"
            /\ children = {}
            /\ invoked # <<>>
            /\ invoked[Len(invoked)] = processed[Len(processed)]
            /\ invoked[Len(invoked)] \notin Range(stderr)
            /\ to_string_lossy(OutputFile(invoked[Len(invoked)], VideosDir))
                    \notin Range(stdout))
    /\ [][err # "spawn"]_vars
    /\ [][stderr' # stderr => event_id_dir \in children /\ pc' = "iter"]_vars

\* a first directory's encoder exited unsuccessfully and the walk went on;
\* the second directory's encoder could not be started
C10_Witness ==
    /\ err = "spawn"
    /\ Len(invoked) = 2
    /\ Len(stderr) = 1

====
